---- MODULE Spec2Model ----
(***************************************************************************)
(* Model of the `parse` handler of the carbon CLI                          *)
(* (crates/cli/src/handlers/parse.rs): schema loading with the legacy      *)
(* fallback, and the emission of the decoder's file tree.                  *)
(*                                                                         *)
(* Text (identifiers, type expressions, paths, file contents) is a         *)
(* sequence of tokens; identifiers are spelled one character per token so  *)
(* that the case conversions are computed, not assumed.                    *)
(***************************************************************************)
EXTENDS Integers, Sequences, FiniteSets, TLC

VARIABLES
    path,               \* the schema file named by `path`: [kind, schema]
    output,             \* the `output` argument, as text
    as_crate,           \* the `as_crate` argument
    pc,                 \* position of the run inside parse
    calls,              \* readers and processors called so far, in order
    accounts_data, instructions_data, types_data, events_data, program_name,
    crate_dir, src_dir, needs_big_array,
    i,                  \* index of the running for loop
    dirs,               \* directories created by the run
    files,              \* files on disk: path -> content
    log,                \* filesystem operations attempted, in order
    result              \* what parse returned, or the panic that ended it

inputs == <<path, output, as_crate>>
data   == <<accounts_data, instructions_data, types_data, events_data, program_name>>
locals == <<crate_dir, src_dir, needs_big_array>>
vars   == <<path, output, as_crate, pc, calls, accounts_data, instructions_data,
            types_data, events_data, program_name, crate_dir, src_dir,
            needs_big_array, i, dirs, files, log, result>>

----------------------------------------------------------------------------
(* Bounds and constants *)

MaxTypes == 2

BigArrayCeiling == 32

----------------------------------------------------------------------------
(* Text helpers *)

RECURSIVE Join(_, _)
Join(parts, sep) ==
    IF parts = <<>> THEN <<>>
    ELSE IF Len(parts) = 1 THEN parts[1]
    ELSE parts[1] \o sep \o Join(Tail(parts), sep)

RECURSIVE Concat(_)
Concat(parts) == IF parts = <<>> THEN <<>> ELSE parts[1] \o Concat(Tail(parts))

Count(text, tok) == Cardinality({k \in 1..Len(text) : text[k] = tok})

SeqsUpTo(S, n) == UNION {[1..k -> S] : k \in 0..n}

----------------------------------------------------------------------------
(* Naming engine (heck): word splitting and the case conversions *)

UpperChars == {"P", "S", "M", "V"}
LowerChars == {"p", "o", "s", "t", "m", "d", "v"}

IsUpper(c) == c \in UpperChars
IsLower(c) == c \in LowerChars
IsAlnum(c) == IsUpper(c) \/ IsLower(c)

ToLower(c) ==
    CASE c = "P" -> "p" [] c = "S" -> "s" [] c = "M" -> "m" [] c = "V" -> "v"
      [] OTHER -> c

ToUpper(c) ==
    CASE c = "p" -> "P" [] c = "s" -> "S" [] c = "m" -> "M" [] c = "v" -> "V"
      [] OTHER -> c

LowerWord(w) == [k \in 1..Len(w) |-> ToLower(w[k])]

CapitalWord(w) == [k \in 1..Len(w) |-> IF k = 1 THEN ToUpper(w[k]) ELSE ToLower(w[k])]

\* A word ends at a non-alphanumeric character, between a lowercase and an
\* uppercase letter, and before the last capital of a run of capitals that
\* is followed by a lowercase letter.
RECURSIVE SplitWords(_, _, _, _)
SplitWords(s, k, cur, acc) ==
    IF k > Len(s) THEN (IF cur = <<>> THEN acc ELSE Append(acc, cur))
    ELSE IF ~IsAlnum(s[k])
         THEN SplitWords(s, k + 1, <<>>, IF cur = <<>> THEN acc ELSE Append(acc, cur))
    ELSE IF /\ cur # <<>>
            /\ IsUpper(s[k])
            /\ \/ IsLower(s[k - 1])
               \/ (IsUpper(s[k - 1]) /\ k < Len(s) /\ IsLower(s[k + 1]))
         THEN SplitWords(s, k + 1, <<s[k]>>, Append(acc, cur))
    ELSE SplitWords(s, k + 1, Append(cur, s[k]), acc)

Words(s) == SplitWords(s, 1, <<>>, <<>>)

to_snake_case(s) ==
    LET w == Words(s) IN Join([k \in 1..Len(w) |-> LowerWord(w[k])], <<"_">>)

to_snek_case(s) == to_snake_case(s)

to_kebab_case(s) ==
    LET w == Words(s) IN Join([k \in 1..Len(w) |-> LowerWord(w[k])], <<"-">>)

to_upper_camel_case(s) ==
    LET w == Words(s) IN Concat([k \in 1..Len(w) |-> CapitalWord(w[k])])

----------------------------------------------------------------------------
(* Type nodes and their target type expressions.  Every constructor of the *)
(* type graph has one element type, so a node is the chain of its layers,  *)
(* outermost first, ending in a primitive or a reference to a defined type.*)

Prim(n)   == <<[kind |-> "prim", len |-> 0, name |-> n]>>
Def(n)    == <<[kind |-> "def", len |-> 0, name |-> n]>>
Arr(t, n) == <<[kind |-> "arr", len |-> n, name |-> <<>>]>> \o t
Vec(t)    == <<[kind |-> "vec", len |-> 0, name |-> <<>>]>> \o t
Opt(t)    == <<[kind |-> "opt", len |-> 0, name |-> <<>>]>> \o t

RECURSIVE RustType(_)
RustType(t) ==
    LET h == Head(t) IN
    CASE h.kind = "arr" -> <<"[">> \o RustType(Tail(t)) \o <<"; ", ToString(h.len), "]">>
      [] h.kind = "vec" -> <<"Vec<">> \o RustType(Tail(t)) \o <<">">>
      [] h.kind = "opt" -> <<"Option<">> \o RustType(Tail(t)) \o <<">">>
      [] OTHER -> h.name

starts_with(text, tok) == text # <<>> /\ text[1] = tok
ends_with(text, tok)   == text # <<>> /\ text[Len(text)] = tok

ParseUsize(tok) ==
    IF \E n \in 0..(BigArrayCeiling + 1) : ToString(n) = tok
    THEN CHOOSE n \in 0..(BigArrayCeiling + 1) : ToString(n) = tok
    ELSE 0

\* util::is_big_array: some array length written in the expression is above
\* the native ceiling.
is_big_array(rust_type) ==
    \E k \in 2..Len(rust_type) :
        rust_type[k - 1] = "; " /\ ParseUsize(rust_type[k]) > BigArrayCeiling

----------------------------------------------------------------------------
(* Schemas *)

NPoolState      == <<"P", "o", "S", "t">>
NPoolStateSnake == <<"p", "o", "_", "s", "t">>
NMod            == <<"M", "o", "d">>
NVault          == <<"V", "t">>
NSwap           == <<"S", "p">>
NMissing        == <<"M", "s">>

U8 == Prim(<<"u8">>)

\* Declarations of user-defined types: [name, fields], a field being its type node.
TypeDecls ==
    { [name |-> NPoolState,      fields |-> <<U8>>],
      [name |-> NPoolStateSnake, fields |-> <<Arr(U8, BigArrayCeiling + 1),
                                             Arr(U8, BigArrayCeiling + 1)>>],
      [name |-> NMod,            fields |-> <<Vec(Arr(U8, BigArrayCeiling + 1))>>],
      [name |-> NVault,          fields |-> <<Def(NMissing), Arr(U8, BigArrayCeiling)>>],
      [name |-> NSwap,           fields |-> <<Opt(Def(NPoolState))>>] }

AccountLists     == { <<NVault>>, <<NVault, NPoolState>> }
InstructionLists == { <<>>, <<NSwap>> }
EventLists       == { <<>>, <<NSwap>> }

Schemas ==
    [ name         : {NPoolState},
      types        : SeqsUpTo(TypeDecls, MaxTypes),
      accounts     : AccountLists,
      instructions : InstructionLists,
      events       : EventLists ]

EmptySchema ==
    [name |-> <<>>, types |-> <<>>, accounts |-> <<>>, instructions |-> <<>>,
     events |-> <<>>]

\* What the file at `path` holds: a schema in the current or in the legacy
\* encoding, text that is neither, or nothing (no such file).
SchemaFiles ==
    [kind : {"current", "legacy"}, schema : Schemas]
        \cup [kind : {"garbage", "missing"}, schema : {EmptySchema}]

Outputs == { <<"out">>, <<"out", "/">> }

----------------------------------------------------------------------------
(* Schema readers (util::read_idl, util::legacy_read_idl) *)

ReadError(reader, p) ==
    <<reader, IF p.kind = "missing" THEN ": not found" ELSE ": parse error">>

read_idl(p) ==
    IF p.kind = "current"
    THEN [ok |-> TRUE, idl |-> p.schema, err |-> <<>>]
    ELSE [ok |-> FALSE, idl |-> EmptySchema, err |-> ReadError("read_idl", p)]

legacy_read_idl(p) ==
    IF p.kind = "legacy"
    THEN [ok |-> TRUE, idl |-> p.schema, err |-> <<>>]
    ELSE [ok |-> FALSE, idl |-> EmptySchema, err |-> ReadError("legacy_read_idl", p)]

----------------------------------------------------------------------------
(* Entity processors *)

DeclaredTypes(idl) == {idl.types[k].name : k \in 1..Len(idl.types)}

\* A type node resolves when the defined type it ends in, if any, is declared.
Resolves(t, idl) ==
    LET base == t[Len(t)] IN base.kind = "def" => base.name \in DeclaredTypes(idl)

EntityResolves(decl, idl) == \A f \in 1..Len(decl.fields) : Resolves(decl.fields[f], idl)

TypeModel(decl) ==
    [name   |-> decl.name,
     fields |-> [f \in 1..Len(decl.fields) |-> [rust_type |-> RustType(decl.fields[f])]]]

\* One model per declared type whose fields all resolve, in declaration order.
TypeModels(idl) ==
    LET kept == SelectSeq(idl.types, LAMBDA d : EntityResolves(d, idl))
    IN  [k \in 1..Len(kept) |-> TypeModel(kept[k])]

EntityModels(names) ==
    [k \in 1..Len(names) |-> [name |-> names[k], module_name |-> to_snake_case(names[k])]]

process_types(idl)        == TypeModels(idl)
process_accounts(idl)     == EntityModels(idl.accounts)
process_instructions(idl) == EntityModels(idl.instructions)
process_events(idl)       == EntityModels(idl.events)

legacy_process_types(idl)        == TypeModels(idl)
legacy_process_accounts(idl)     == EntityModels(idl.accounts)
legacy_process_instructions(idl) == EntityModels(idl.instructions)
legacy_process_events(idl)       == EntityModels(idl.events)

----------------------------------------------------------------------------
(* Filesystem (std::fs) and the `.expect(..)` on every call of it *)

\* The directory and all its missing ancestors.
Ancestors(d) == {SubSeq(d, 1, k - 1) : k \in {j \in 2..Len(d) : d[j] = "/"}} \cup {d}

Parent(f) ==
    LET slashes == {j \in 1..Len(f) : f[j] = "/"}
    IN  IF slashes = {} THEN <<>>
        ELSE SubSeq(f, 1, (CHOOSE j \in slashes : \A m \in slashes : m <= j) - 1)

Running    == [kind |-> "running", msg |-> <<>>]
Ok         == [kind |-> "Ok", msg |-> <<>>]
Err(e)     == [kind |-> "Err", msg |-> e]
Panic(msg) == [kind |-> "panic", msg |-> <<msg>>]

\* `.expect(msg)`: the run goes on after a success and panics on a failure.
expect_pc_swallow(ok, next) == next

expect_pc(ok, next) == IF ok THEN next ELSE "halted"

expect_result(ok, msg) == IF ok THEN result ELSE Panic(msg)

create_dir_all(d, ok, msg, next) ==
    /\ log' = Append(log, [op |-> "mkdir", path |-> d, ok |-> ok, site |-> msg])
    /\ dirs' = IF ok THEN dirs \cup Ancestors(d) ELSE dirs
    /\ files' = files
    /\ pc' = expect_pc(ok, next)
    /\ result' = expect_result(ok, msg)

\* A write succeeds only into an existing directory; it creates the file or
\* replaces its content.
fs_write(f, content, io_ok, msg, next) ==
    LET ok == io_ok /\ Parent(f) \in dirs IN
    /\ log' = Append(log, [op |-> "write", path |-> f, ok |-> ok, site |-> msg])
    /\ files' = IF ok
                THEN [q \in DOMAIN files \cup {f} |-> IF q = f THEN content ELSE files[q]]
                ELSE files
    /\ dirs' = dirs
    /\ pc' = expect_pc(ok, next)
    /\ result' = expect_result(ok, msg)

\* `for x in &xs`: the body runs for index k while k is within xs.
loop_next_short(k, xs, body, exit) == IF k < Len(xs) THEN body ELSE exit

loop_next(k, xs, body, exit) == IF k <= Len(xs) THEN body ELSE exit

----------------------------------------------------------------------------
(* Names, paths and contents computed by parse *)

decoder_name(name)             == to_upper_camel_case(name) \o <<"Decoder">>
decoder_name_kebab(name)       == to_kebab_case(name)
program_struct_name(name)      == to_upper_camel_case(name) \o <<"Account">>
program_instruction_enum(name) == to_upper_camel_case(name) \o <<"Instruction">>

CrateDir(out, name, crate) ==
    IF ends_with(out, "/")
    THEN IF crate
         THEN out \o decoder_name_kebab(name) \o <<"-decoder">>
         ELSE out \o to_snek_case(name) \o <<"_decoder">>
    ELSE IF crate
         THEN out \o <<"/">> \o decoder_name_kebab(name) \o <<"-decoder">>
         ELSE out \o <<"/">> \o to_snek_case(name) \o <<"_decoder">>

SrcDir(cdir, crate) == IF crate THEN cdir \o <<"/", "src">> ELSE cdir

NeedsBigArray(tds) ==
    \E t \in 1..Len(tds) : \E f \in 1..Len(tds[t].fields) :
        /\ starts_with(tds[t].fields[f].rust_type, "[")
        /\ ends_with(tds[t].fields[f].rust_type, "]")
        /\ is_big_array(tds[t].fields[f].rust_type)

ModRs == <<"m", "o", "d", ".rs">>

types_dir        == src_dir \o <<"/", "types">>
accounts_dir     == src_dir \o <<"/", "accounts">>
instructions_dir == src_dir \o <<"/", "instructions">>

type_filename(type_data)       == types_dir \o <<"/">> \o to_snake_case(type_data.name) \o <<".rs">>
account_filename(account)      == accounts_dir \o <<"/">> \o account.module_name \o <<".rs">>
instruction_filename(instr)    == instructions_dir \o <<"/">> \o instr.module_name \o <<".rs">>
event_filename(event)          == instructions_dir \o <<"/">> \o event.module_name \o <<".rs">>
types_mod_filename             == types_dir \o <<"/">> \o ModRs
accounts_mod_filename          == accounts_dir \o <<"/">> \o ModRs
instructions_mod_filename      == instructions_dir \o <<"/">> \o ModRs
lib_rs_filename                == src_dir \o <<"/", "lib.rs">>
cargo_toml_filename            == crate_dir \o <<"/", "Cargo.toml">>
mod_rs_filename                == src_dir \o <<"/">> \o ModRs

\* Template rendering (askama): a pure function of the model it is given.
Render(template, model) == <<template>> \o model.name

type_mod_entry_raw(type_data) ==
    <<"pub mod ">> \o type_data.name \o <<";\npub use ">> \o type_data.name \o <<"::*;">>

type_mod_entry(type_data) ==
    <<"pub mod ">> \o to_snake_case(type_data.name) \o <<";\npub use ">>
        \o to_snake_case(type_data.name) \o <<"::*;">>

BigArrayImport == "\nuse serde_big_array::BigArray;\n"

TypesModContent(tds, big) ==
    Join([k \in 1..Len(tds) |-> type_mod_entry(tds[k])], <<"\n">>)
        \o (IF big THEN <<BigArrayImport>> ELSE <<>>)

\* The aggregator templates list the modules of the models they are given.
ModRender(template, models) ==
    <<template>> \o Concat([k \in 1..Len(models) |->
        <<"pub mod ">> \o models[k].module_name \o <<";">>])

EntryContent(name) ==
    <<"pub struct ">> \o decoder_name(name)
        \o <<";\npub mod accounts;\npub mod instructions;\npub mod types;">>

BigArrayDependency == "serde-big-array = { workspace = true }"

CargoTomlContent(name, big) ==
    <<"[package]\nname = \"">> \o decoder_name_kebab(name) \o <<"-decoder\"\n">>
        \o <<"[dependencies]\n">>
        \o <<IF big THEN BigArrayDependency ELSE "">> \o <<"\n">>

----------------------------------------------------------------------------
(* parse(path, output, as_crate) *)

Init ==
    /\ path \in SchemaFiles
    /\ output \in Outputs
    /\ as_crate \in BOOLEAN
    /\ pc = "read_idl"
    /\ calls = <<>>
    /\ accounts_data = <<>>
    /\ instructions_data = <<>>
    /\ types_data = <<>>
    /\ events_data = <<>>
    /\ program_name = <<>>
    /\ crate_dir = <<>>
    /\ src_dir = <<>>
    /\ needs_big_array = FALSE
    /\ i = 1
    /\ dirs = {}
    /\ files = [q \in {} |-> <<>>]
    /\ log = <<>>
    /\ result = Running

\* `bail!("{idl_err}")`: the error of the legacy reader is the one returned.
bail_error_current(cur_err, idl_err) == cur_err

bail_error(cur_err, idl_err) == idl_err

\* Where the run stands after both readers failed.
bail_pc_continue == "create_crate_dir"

bail_pc == "halted"

ReadIdl ==
    /\ pc = "read_idl"
    /\ LET r == read_idl(path) IN
       IF r.ok
       THEN /\ calls' = calls \o <<"read_idl", "process_accounts", "process_instructions",
                                  "process_types", "process_events">>
            /\ accounts_data' = process_accounts(r.idl)
            /\ instructions_data' = process_instructions(r.idl)
            /\ types_data' = process_types(r.idl)
            /\ events_data' = process_events(r.idl)
            /\ program_name' = r.idl.name
            /\ pc' = "create_crate_dir"
       ELSE /\ calls' = Append(calls, "read_idl")
            /\ pc' = "legacy_read_idl"
            /\ UNCHANGED data
    /\ UNCHANGED <<inputs, locals, i, dirs, files, log, result>>

LegacyReadIdl ==
    /\ pc = "legacy_read_idl"
    /\ LET r == legacy_read_idl(path) IN
       IF r.ok
       THEN /\ calls' = calls \o <<"legacy_read_idl", "legacy_process_accounts",
                                  "legacy_process_instructions", "legacy_process_types",
                                  "legacy_process_events">>
            /\ accounts_data' = legacy_process_accounts(r.idl)
            /\ instructions_data' = legacy_process_instructions(r.idl)
            /\ types_data' = legacy_process_types(r.idl)
            /\ events_data' = legacy_process_events(r.idl)
            /\ program_name' = r.idl.name
            /\ pc' = "create_crate_dir"
            /\ result' = result
       ELSE /\ calls' = Append(calls, "legacy_read_idl")
            /\ pc' = bail_pc
            /\ result' = Err(bail_error(read_idl(path).err, r.err))
            /\ UNCHANGED data
    /\ UNCHANGED <<inputs, locals, i, dirs, files, log>>

CreateCrateDir ==
    /\ pc = "create_crate_dir"
    /\ \E ok \in BOOLEAN :
        /\ crate_dir' = CrateDir(output, program_name, as_crate)
        /\ create_dir_all(crate_dir', ok, "Failed to create decoder directory",
                          "create_src_dir")
    /\ UNCHANGED <<inputs, data, calls, src_dir, needs_big_array, i>>

CreateSrcDir ==
    /\ pc = "create_src_dir"
    /\ \E ok \in BOOLEAN :
        /\ src_dir' = SrcDir(crate_dir, as_crate)
        /\ create_dir_all(src_dir', ok, "Failed to create src directory",
                          "create_types_dir")
    /\ UNCHANGED <<inputs, data, calls, crate_dir, needs_big_array, i>>

CreateTypesDir ==
    /\ pc = "create_types_dir"
    /\ needs_big_array' = NeedsBigArray(types_data)
    /\ i' = 1
    /\ \E ok \in BOOLEAN :
        create_dir_all(types_dir, ok, "Failed to create types directory",
                       loop_next(1, types_data, "write_type_file", "write_types_mod"))
    /\ UNCHANGED <<inputs, data, calls, crate_dir, src_dir>>

WriteTypeFile ==
    /\ pc = "write_type_file"
    /\ i' = i + 1
    /\ \E ok \in BOOLEAN :
        fs_write(type_filename(types_data[i]), Render("TypeStruct", types_data[i]), ok,
                 "Failed to write type struct file",
                 loop_next(i + 1, types_data, "write_type_file", "write_types_mod"))
    /\ UNCHANGED <<inputs, data, calls, locals>>

WriteTypesMod ==
    /\ pc = "write_types_mod"
    /\ \E ok \in BOOLEAN :
        fs_write(types_mod_filename, TypesModContent(types_data, needs_big_array), ok,
                 "Failed to write types mod file", "create_accounts_dir")
    /\ UNCHANGED <<inputs, data, calls, locals, i>>

CreateAccountsDir ==
    /\ pc = "create_accounts_dir"
    /\ i' = 1
    /\ \E ok \in BOOLEAN :
        create_dir_all(accounts_dir, ok, "Failed to create accounts directory",
                       loop_next(1, accounts_data, "write_account_file",
                                 "write_accounts_mod"))
    /\ UNCHANGED <<inputs, data, calls, locals>>

WriteAccountFile ==
    /\ pc = "write_account_file"
    /\ i' = i + 1
    /\ \E ok \in BOOLEAN :
        fs_write(account_filename(accounts_data[i]),
                 Render("AccountsStruct", accounts_data[i]), ok,
                 "Failed to write account struct file",
                 loop_next(i + 1, accounts_data, "write_account_file",
                           "write_accounts_mod"))
    /\ UNCHANGED <<inputs, data, calls, locals>>

WriteAccountsMod ==
    /\ pc = "write_accounts_mod"
    /\ \E ok \in BOOLEAN :
        fs_write(accounts_mod_filename, ModRender("AccountsMod", accounts_data), ok,
                 "Failed to write accounts mod file", "create_instructions_dir")
    /\ UNCHANGED <<inputs, data, calls, locals, i>>

CreateInstructionsDir ==
    /\ pc = "create_instructions_dir"
    /\ i' = 1
    /\ \E ok \in BOOLEAN :
        create_dir_all(instructions_dir, ok, "Failed to create instructions directory",
                       loop_next(1, instructions_data, "write_instruction_file",
                                 loop_next(1, events_data, "write_event_file",
                                           "write_instructions_mod")))
    /\ UNCHANGED <<inputs, data, calls, locals>>

WriteInstructionFile ==
    /\ pc = "write_instruction_file"
    /\ LET next == loop_next(i + 1, instructions_data, "write_instruction_file",
                             loop_next(1, events_data, "write_event_file",
                                       "write_instructions_mod")) IN
       /\ i' = IF next = "write_instruction_file" THEN i + 1 ELSE 1
       /\ \E ok \in BOOLEAN :
            fs_write(instruction_filename(instructions_data[i]),
                     Render("InstructionsStruct", instructions_data[i]), ok,
                     "Failed to write instruction struct file", next)
    /\ UNCHANGED <<inputs, data, calls, locals>>

WriteEventFile ==
    /\ pc = "write_event_file"
    /\ i' = i + 1
    /\ \E ok \in BOOLEAN :
        fs_write(event_filename(events_data[i]), Render("EventsStruct", events_data[i]),
                 ok, "Failed to write event struct file",
                 loop_next(i + 1, events_data, "write_event_file",
                           "write_instructions_mod"))
    /\ UNCHANGED <<inputs, data, calls, locals>>

WriteInstructionsMod ==
    /\ pc = "write_instructions_mod"
    /\ \E ok \in BOOLEAN :
        fs_write(instructions_mod_filename,
                 ModRender("InstructionsMod", instructions_data \o events_data), ok,
                 "Failed to write instructions mod file",
                 IF as_crate THEN "write_lib_rs" ELSE "write_mod_rs")
    /\ UNCHANGED <<inputs, data, calls, locals, i>>

WriteLibRs ==
    /\ pc = "write_lib_rs"
    /\ \E ok \in BOOLEAN :
        fs_write(lib_rs_filename, EntryContent(program_name), ok,
                 "Failed to write lib.rs file", "write_cargo_toml")
    /\ UNCHANGED <<inputs, data, calls, locals, i>>

WriteCargoToml ==
    /\ pc = "write_cargo_toml"
    /\ \E ok \in BOOLEAN :
        fs_write(cargo_toml_filename, CargoTomlContent(program_name, needs_big_array), ok,
                 "Failed to write Cargo.toml file", "return_ok")
    /\ UNCHANGED <<inputs, data, calls, locals, i>>

WriteModRs ==
    /\ pc = "write_mod_rs"
    /\ \E ok \in BOOLEAN :
        fs_write(mod_rs_filename, EntryContent(program_name), ok,
                 "Failed to write mod.rs file", "return_ok")
    /\ UNCHANGED <<inputs, data, calls, locals, i>>

ReturnOk ==
    /\ pc = "return_ok"
    /\ pc' = "done"
    /\ result' = Ok
    /\ UNCHANGED <<inputs, data, calls, locals, i, dirs, files, log>>

Next ==
    \/ ReadIdl
    \/ LegacyReadIdl
    \/ CreateCrateDir
    \/ CreateSrcDir
    \/ CreateTypesDir
    \/ WriteTypeFile
    \/ WriteTypesMod
    \/ CreateAccountsDir
    \/ WriteAccountFile
    \/ WriteAccountsMod
    \/ CreateInstructionsDir
    \/ WriteInstructionFile
    \/ WriteEventFile
    \/ WriteInstructionsMod
    \/ WriteLibRs
    \/ WriteCargoToml
    \/ WriteModRs
    \/ ReturnOk

Spec == Init /\ [][Next]_vars

----------------------------------------------------------------------------
(* Vocabulary of the properties *)

Terminal == pc \in {"done", "halted"}

Loaded == pc \notin {"read_idl", "legacy_read_idl"} /\ result.kind # "Err"

WritesOk == SelectSeq(log, LAMBDA e : e.op = "write" /\ e.ok)

SiteWrites(site) == SelectSeq(WritesOk, LAMBDA e : e.site = site)

Written(site) == SiteWrites(site) # <<>>

IoFailed == \E k \in 1..Len(log) : ~log[k].ok

TypeSite      == "Failed to write type struct file"
TypesModSite  == "Failed to write types mod file"
AccountSite   == "Failed to write account struct file"
AccountsModSite == "Failed to write accounts mod file"
InstructionSite == "Failed to write instruction struct file"
EventSite     == "Failed to write event struct file"
InstructionsModSite == "Failed to write instructions mod file"
LibRsSite     == "Failed to write lib.rs file"
CargoTomlSite == "Failed to write Cargo.toml file"
ModRsSite     == "Failed to write mod.rs file"

\* The file name of a path without its directory and its extension.
Stem(f) == SubSeq(f, Len(Parent(f)) + 2, Len(f) - 1)

\* The module names an aggregator declares, in the order of its text: the
\* characters between each `pub mod ` and the `;` that ends the declaration.
RECURSIVE ModsFrom(_, _, _, _)
ModsFrom(text, k, cur, acc) ==
    IF k > Len(text) THEN acc
    ELSE IF text[k] = "pub mod " THEN ModsFrom(text, k + 1, <<<<>>>>, acc)
    ELSE IF cur = <<>> THEN ModsFrom(text, k + 1, cur, acc)
    ELSE IF text[k] \in {";\npub use ", ";"}
         THEN ModsFrom(text, k + 1, <<>>, Append(acc, cur[1]))
    ELSE ModsFrom(text, k + 1, <<Append(cur[1], text[k])>>, acc)

DeclaredMods(text) == ModsFrom(text, 1, <<>>, <<>>)

\* The names the aggregator re-exports: between each `pub use ` and `::*;`.
RECURSIVE UsesFrom(_, _, _, _)
UsesFrom(text, k, cur, acc) ==
    IF k > Len(text) THEN acc
    ELSE IF text[k] = ";\npub use " THEN UsesFrom(text, k + 1, <<<<>>>>, acc)
    ELSE IF cur = <<>> THEN UsesFrom(text, k + 1, cur, acc)
    ELSE IF text[k] = "::*;" THEN UsesFrom(text, k + 1, <<>>, Append(acc, cur[1]))
    ELSE UsesFrom(text, k + 1, <<Append(cur[1], text[k])>>, acc)

ReExportedMods(text) == UsesFrom(text, 1, <<>>, <<>>)

Stems(writes) == [k \in 1..Len(writes) |-> Stem(writes[k].path)]

\* The declared types that were processed, and whether one of them has a
\* fixed array above the native ceiling anywhere in a field's type.
ProcessedDecls == SelectSeq(path.schema.types, LAMBDA d : EntityResolves(d, path.schema))

FailedDecls == SelectSeq(path.schema.types, LAMBDA d : ~EntityResolves(d, path.schema))

HasOversizedArray(t) == \E l \in 1..Len(t) : t[l].kind = "arr" /\ t[l].len > BigArrayCeiling

SomeTypeNeedsOversized ==
    \E d \in 1..Len(ProcessedDecls) : \E f \in 1..Len(ProcessedDecls[d].fields) :
        HasOversizedArray(ProcessedDecls[d].fields[f])

----------------------------------------------------------------------------
(* C1: the current encoding is read first; the legacy reader and the legacy *)
(* processors run only after the current read failed; a schema that only    *)
(* the legacy reader accepts is loaded, goes on to emission with the models *)
(* of its entities and, no filesystem operation failing, ends in Ok; when   *)
(* both reads fail parse returns the error of the legacy reader.            *)

LegacyCalls ==
    {"legacy_read_idl", "legacy_process_accounts", "legacy_process_instructions",
     "legacy_process_types", "legacy_process_events"}

C1_LegacyFallback ==
    /\ calls # <<>> => calls[1] = "read_idl"
    /\ \A k \in 1..Len(calls) :
         calls[k] \in LegacyCalls => (k > 1 /\ path.kind # "current")
    /\ \A k \in 1..Len(calls) :
         calls[k] \in {"legacy_process_accounts", "legacy_process_instructions",
                       "legacy_process_types", "legacy_process_events"}
            => path.kind = "legacy"
    /\ (path.kind = "legacy" /\ pc \notin {"read_idl", "legacy_read_idl"})
          => /\ result.kind # "Err"
             /\ pc # "halted" \/ IoFailed
             /\ types_data = process_types(path.schema)
             /\ accounts_data = process_accounts(path.schema)
             /\ instructions_data = process_instructions(path.schema)
             /\ events_data = process_events(path.schema)
    /\ (path.kind = "legacy" /\ Terminal /\ ~IoFailed) => (pc = "done" /\ result = Ok)
    /\ (path.kind \in {"garbage", "missing"} /\ Terminal)
          => /\ result.kind = "Err"
             /\ result.msg[1] = "legacy_read_idl"
             /\ result.msg = ReadError("legacy_read_idl", path)

C1_Witness ==
    /\ pc = "done" /\ path.kind = "legacy" /\ result = Ok
    /\ "legacy_process_types" \in {calls[k] : k \in 1..Len(calls)}
    /\ Len(types_data) > 0

----------------------------------------------------------------------------
(* C2: a run that ends with the schema-load error has created no directory  *)
(* and written no file, and has attempted no filesystem operation at all.   *)

C2_NoOutputOnLoadError ==
    result.kind = "Err" => (dirs = {} /\ DOMAIN files = {} /\ log = <<>>)

C2_Witness == result.kind = "Err" /\ pc = "halted" /\ path.kind = "garbage"

----------------------------------------------------------------------------
(* C3: a successful package-mode run has the manifest, whose dependency     *)
(* section holds the big-array line iff some processed type has an          *)
(* oversized array; a successful module-mode run has no manifest and its    *)
(* entry point directly under the output root.                              *)

C3_PackageVsModule ==
    (pc = "done" /\ result = Ok) =>
        IF as_crate
        THEN /\ cargo_toml_filename \in DOMAIN files
             /\ (Count(files[cargo_toml_filename], BigArrayDependency) > 0)
                    <=> SomeTypeNeedsOversized
        ELSE /\ \A f \in DOMAIN files : f[Len(f)] # "Cargo.toml"
             /\ (crate_dir \o <<"/">> \o ModRs) \in DOMAIN files

----------------------------------------------------------------------------
(* C4: once written, the types aggregator holds the big-array import        *)
(* exactly once if some processed type has a field with an oversized array  *)
(* at any nesting position, and not at all otherwise.                       *)

C4_BigArrayImportOnce ==
    Written(TypesModSite) =>
        Count(files[types_mod_filename], BigArrayImport)
            = (IF SomeTypeNeedsOversized THEN 1 ELSE 0)

----------------------------------------------------------------------------
(* C5: when two type models have distinct names with the same module name,  *)
(* the run does not end in Ok and no type file is written over another.     *)

TypeNameCollision ==
    \E a, b \in 1..Len(types_data) :
        /\ types_data[a].name # types_data[b].name
        /\ to_snake_case(types_data[a].name) = to_snake_case(types_data[b].name)

C5_NameCollisionRaised ==
    TypeNameCollision =>
        /\ pc = "done" => result.kind # "Ok"
        /\ \A a, b \in 1..Len(SiteWrites(TypeSite)) :
             a # b => SiteWrites(TypeSite)[a].path # SiteWrites(TypeSite)[b].path

----------------------------------------------------------------------------
(* C6: a failed filesystem operation is the last one the run attempts (no   *)
(* later write, no retry), ends the run in a panic and not in Ok, and       *)
(* leaves in place every directory and file made before it.                 *)

C6_IoFailureAborts ==
    /\ \A k \in 1..Len(log) :
         ~log[k].ok => (k = Len(log) /\ pc = "halted" /\ result.kind = "panic")
    /\ \A k \in 1..Len(log) :
         log[k].ok => IF log[k].op = "write" THEN log[k].path \in DOMAIN files
                      ELSE log[k].path \in dirs

C6_Witness ==
    /\ result.kind = "panic" /\ pc = "halted"
    /\ Len(log) > 1 /\ ~log[Len(log)].ok /\ log[Len(log)].op = "write"
    /\ DOMAIN files # {}

----------------------------------------------------------------------------
(* C7: once a category's aggregator is written, one file was written per    *)
(* entity model of the category, in the order of the models, and the        *)
(* aggregator names the modules of those files in that order; the types     *)
(* aggregator holds one `pub mod m; pub use m::*;` pair per type model, in  *)
(* the order of the type models, m being the stem of the file written for   *)
(* that type.                                                               *)

C7_AggregatorsInDeclarationOrder ==
    /\ Written(TypesModSite) =>
         LET tw   == SiteWrites(TypeSite)
             text == files[types_mod_filename]
         IN  /\ Len(tw) = Len(types_data)
             /\ \A k \in 1..Len(tw) : Parent(tw[k].path) = types_dir
             /\ DeclaredMods(text) = Stems(tw)
             /\ ReExportedMods(text) = Stems(tw)
             /\ Count(text, "pub mod ") = Len(types_data)
             /\ Count(text, ";\npub use ") = Len(types_data)
    /\ Written(AccountsModSite) =>
         LET aw == SiteWrites(AccountSite)
         IN  /\ Len(aw) = Len(accounts_data)
             /\ \A k \in 1..Len(aw) :
                  /\ Parent(aw[k].path) = accounts_dir
                  /\ Stem(aw[k].path) = accounts_data[k].module_name
             /\ DeclaredMods(files[accounts_mod_filename]) = Stems(aw)
    /\ Written(InstructionsModSite) =>
         LET iw == SiteWrites(InstructionSite) \o SiteWrites(EventSite)
         IN  /\ Len(iw) = Len(instructions_data) + Len(events_data)
             /\ \A k \in 1..Len(iw) : Parent(iw[k].path) = instructions_dir
             /\ DeclaredMods(files[instructions_mod_filename]) = Stems(iw)

C7_Witness ==
    /\ pc = "done"
    /\ Len(types_data) = MaxTypes
    /\ \A a, b \in 1..Len(types_data) :
         a # b => to_snake_case(types_data[a].name) # to_snake_case(types_data[b].name)
    /\ \E a \in 1..Len(types_data) : to_snake_case(types_data[a].name) # types_data[a].name
    /\ Len(accounts_data) > 1

----------------------------------------------------------------------------
(* C8: when a declared type has a field whose type does not resolve, the    *)
(* files of the sibling types are emitted and the finished run does not     *)
(* report plain success.                                                    *)

C8_UnresolvedFieldReported ==
    (pc = "done" /\ FailedDecls # <<>>) =>
        /\ \A k \in 1..Len(ProcessedDecls) :
             (types_dir \o <<"/">> \o to_snake_case(ProcessedDecls[k].name) \o <<".rs">>)
                \in DOMAIN files
        /\ result.kind # "Ok"

----------------------------------------------------------------------------
(* C9: no path is written twice during one run.                             *)

C9_EveryFileWrittenOnce ==
    \A a, b \in 1..Len(WritesOk) : a # b => WritesOk[a].path # WritesOk[b].path

----------------------------------------------------------------------------
(* C10: the files are written in the order types, types aggregator,         *)
(* accounts, accounts aggregator, instructions, events, instructions        *)
(* aggregator, entry point, manifest; so at every moment an aggregator was  *)
(* written only after all entity files of its category, the entry point     *)
(* only after the three aggregators, the manifest only after the entry      *)
(* point.                                                                   *)

EmissionOrder ==
    <<TypeSite, TypesModSite, AccountSite, AccountsModSite, InstructionSite, EventSite,
      InstructionsModSite, LibRsSite, ModRsSite, CargoTomlSite>>

Rank(site) == CHOOSE r \in 1..Len(EmissionOrder) : EmissionOrder[r] = site

EntitySites == {TypeSite, AccountSite, InstructionSite, EventSite}

====
